---------------------------- MODULE Spec2Model ----------------------------
(***************************************************************************)
(* Deferred onboarding for Stripe Connect: the seller record (User model), *)
(* the provider (Stripe accounts, payment intents, transfers) and the four *)
(* request handlers that touch them:                                       *)
(*   POST /api/create-deferred-account   (part_002, lines 14-149)          *)
(*   POST /api/create-deferred-payment   (part_001, lines 14-188)          *)
(*   POST /api/webhooks/stripe           (part_002, lines 220-428)         *)
(*     handleCheckoutSessionCompleted, handleAccountUpdated                *)
(*                                                                         *)
(* Every await of a handler is a step of its own, so that requests served  *)
(* concurrently interleave between a findOne and the save that follows it. *)
(* A handler holds its Mongoose document in procs[p].doc (the document as  *)
(* loaded); save() writes the paths the handler assigned a value that      *)
(* differs from the loaded one, which is Mongoose's change tracking.       *)
(*                                                                         *)
(* Money: the code keeps pendingEarnings in dollars as a JavaScript number *)
(* that is always a sum of values parsed from (cents / 100).toString().    *)
(* Such a number d is represented here by the integer Math.round(d * 100); *)
(* the floating point error of a sum of a few two-decimal values is far    *)
(* below half a cent, so the representation is exact for every amount the  *)
(* model reaches.                                                          *)
(***************************************************************************)
EXTENDS Integers, Sequences, FiniteSets, TLC

\* ------------------------------------------------------------- bounds
NumSellers == 1
NumProcs == 2
MaxAccounts == 2
MaxIntents == 2
MaxDeliveries == 2
MaxTransfers == 2
\* the accounts and prices of the concurrent specification
ConcurrentAccounts == 1
ConcurrentPrices == {10}
\* the accounts and prices of the specification that observes the responses
ObservedAccounts == 1
ObservedPrices == {10}

\* ------------------------------------------------- program constants
\* Math.round(productInfo.price * 100): the prices a session is created for
Prices == {10, 25}
\* earningsCount >= 3
NotificationThreshold == 3

Sellers == 1..NumSellers
Procs == 1..NumProcs
AccountIds == 1..MaxAccounts

VARIABLES
    db,          \* the users collection: clerkUserId -> User document
    accounts,    \* the provider's connected accounts
    intents,     \* the provider's payment intents (checkout sessions), in creation order
    transfers,   \* the provider's transfers, in creation order
    recorded,    \* per intent: runs of handleCheckoutSessionCompleted that saved the sale
    crashedAfterTransfer, \* per seller: a settlement run failed after its transfer succeeded
    procs,       \* the requests being served: position and local variables
    lastResponse \* the request that returned last, <<route, status>>, when observed

vars == <<db, accounts, intents, transfers, recorded, crashedAfterTransfer, procs,
          lastResponse>>

\* ------------------------------------------------------- User model
\* DeferredOnboardingSchema defaults
DeferredOnboardingDefault ==
    [hasMinimalAccount |-> FALSE, pendingEarnings |-> 0, earningsCount |-> 0,
     onboardingNotificationSent |-> FALSE]

\* a User document with the schema's defaults; clerkUserId 0 stands for "no document"
NewUser(userId) ==
    [clerkUserId |-> userId, stripeAccountId |-> 0, isStripeConnected |-> FALSE,
     deferredOnboarding |-> DeferredOnboardingDefault]

NoUser == NewUser(0)

\* User.findOne({ clerkUserId: userId })
FindByClerkUserId(userId) == db[userId]

\* a mutation of FindByStripeAccountId: some seller is found whatever the
\* account
FindByStripeAccountIdAnySeller(accountId) ==
    IF \E s \in Sellers : db[s] # NoUser
    THEN CHOOSE s \in Sellers : db[s] # NoUser
    ELSE 0

\* User.findOne({ stripeAccountId: accountId }): the seller's id, or 0
FindByStripeAccountId(accountId) ==
    IF \E s \in Sellers : db[s] # NoUser /\ db[s].stripeAccountId = accountId
    THEN CHOOSE s \in Sellers : db[s] # NoUser /\ db[s].stripeAccountId = accountId
    ELSE 0

\* -------------------------------------------------------- provider
NoAccount ==
    [created |-> FALSE, platform_user_id |-> 0, interval |-> "manual",
     charges_enabled |-> FALSE, transfers |-> "inactive"]

NumCreated == Cardinality({a \in AccountIds : accounts[a].created})

\* the idempotency key a request to the provider carries: <<>> is "none"
NoIdempotencyKey == <<>>

\* ------------------------------------------------------- processes
Idle ==
    [pc |-> "idle", caller |-> "none", seller |-> 0, acct |-> 0, intent |-> 0,
     price |-> 0, doc |-> NoUser, isNew |-> FALSE, pendingEarnings |-> 0,
     transfer |-> 0, capability |-> "none", useDirectTransfer |-> FALSE,
     signature |-> "none", existingAccount |-> "none"]

Goto(p, rec) == procs' = [procs EXCEPT ![p] = rec] /\ UNCHANGED lastResponse

\* lastResponse in the specifications that do not observe the responses
Unobserved == <<>>

\* lastResponse before any request returned, where responses are observed
NoResponse == <<"none", 0>>

\* return NextResponse.json(..., { status }): route names the handler that
\* ran and, where a handler has several, the return or catch that ended it
Respond(p, route, status) ==
    /\ procs' = [procs EXCEPT ![p] = Idle]
    /\ lastResponse' = IF lastResponse = Unobserved THEN Unobserved
                       ELSE <<route, status>>

\* the users collection holds the sellers that signed up, none provisioned;
\* the provider holds nothing; no request is being served
StartState ==
    /\ db \in [Sellers -> {NoUser} \cup {NewUser(s) : s \in Sellers}]
    /\ \A s \in Sellers : db[s] \in {NoUser, NewUser(s)}
    /\ accounts = [a \in AccountIds |-> NoAccount]
    /\ intents = <<>>
    /\ transfers = <<>>
    /\ recorded = [i \in 1..MaxIntents |-> 0]
    /\ crashedAfterTransfer = [s \in Sellers |-> FALSE]
    /\ procs = [p \in Procs |-> Idle]

Init == StartState /\ lastResponse = Unobserved

\* the same start, with the responses observed
InitObs == StartState /\ lastResponse = NoResponse

\* ------------------------------------------- POST /api/webhooks/stripe
\* a mutation of IsFullyVerified: enabled charges are enough
IsFullyVerifiedChargesOnly(account) == account.charges_enabled = TRUE

\* const isFullyVerified = account.charges_enabled === true &&
\*                         account.capabilities?.transfers === "active"
IsFullyVerified(account) ==
    account.charges_enabled = TRUE /\ account.transfers = "active"

\* a mutation of TransferAmount: only whole major units are transferred
TransferAmountWholeUnits(pendingEarnings) == (pendingEarnings \div 100) * 100

\* amount: Math.round(pendingEarnings * 100)
TransferAmount(pendingEarnings) == pendingEarnings

\* a metadata key or a payment intent parameter that is not set
Absent == -1

\* a mutation of SellerAmountOf: the gross amount is taken for the net amount
SellerAmountOfGross(metadata) == metadata.unit_amount

\* parseFloat(metadata.seller_amount || "0")
SellerAmountOf(metadata) ==
    IF metadata.seller_amount = Absent THEN 0 ELSE metadata.seller_amount

\* a mutation of IsPlatformHeld: every completed session is taken as held
IsPlatformHeldAlways(metadata) == TRUE

\* a mutation of IsPlatformHeld: the strategy is evaluated again at
\* completion, and a seller connected by then is taken as paid directly
IsPlatformHeldUnlessConnected(metadata) ==
    /\ metadata.payment_type = "platform_held"
    /\ ~db[metadata.sellerUserId].isStripeConnected

\* const paymentType = metadata.payment_type; if (paymentType === "platform_held")
IsPlatformHeld(metadata) == metadata.payment_type = "platform_held"

\* the runs of handleCheckoutSessionCompleted for intent i that have read the
\* seller and not saved yet
InFlight(i) ==
    Cardinality({q \in Procs : procs[q].pc = "cs_save" /\ procs[q].intent = i})

\* the stripe-signature header of a webhook request, as constructEvent
\* judges it against the webhook secret
Signatures == {"missing", "invalid", "valid"}

\* a mutation of SignatureVerified: every request is let through
SignatureVerifiedAlways(signature) == TRUE

\* if (!signature) return 400; try { event = stripe.webhooks.constructEvent(
\* body, signature, webhookSecret) } catch (err) { return 400 }
SignatureVerified(signature) == signature = "valid"

\* { error: "No signature provided" } or { error: "Invalid signature" },
\* status 400
WebhookRejected(p) == Respond(p, "webhook:signature", 400)

\* POST: the signature is checked first; a request that passes goes on to
\* connectMongo and the dispatch on event.type
WebhookPost(p, signature) ==
    /\ procs[p].pc = "idle"
    /\ IF SignatureVerified(signature)
       THEN Goto(p, [Idle EXCEPT !.pc = "wh_dispatch", !.signature = signature])
       ELSE WebhookRejected(p)
    /\ UNCHANGED <<db, accounts, intents, transfers, recorded, crashedAfterTransfer>>

\* case "transfer.created" and default: the event is logged
WebhookOtherEvent(p) ==
    /\ procs[p].pc = "wh_dispatch"
    /\ Respond(p, "webhook", 200)
    /\ UNCHANGED <<db, accounts, intents, transfers, recorded, crashedAfterTransfer>>

\* case "checkout.session.completed": paymentIntents.retrieve, then
\* User.findOne({ clerkUserId: sellerUserId }) and the sale added to the
\* document in memory
HandleCheckoutSessionCompleted(p, i, ok) ==
    /\ procs[p].pc = "wh_dispatch"
    /\ i \in 1..Len(intents)
    /\ recorded[i] + InFlight(i) < MaxDeliveries
    /\ LET metadata == intents[i]
           sellerAmount == SellerAmountOf(metadata)
           seller == FindByClerkUserId(metadata.sellerUserId)
       IN  IF ~ok
           THEN Respond(p, "checkout.session.completed", 500)
           ELSE IF IsPlatformHeld(metadata) /\ seller # NoUser
           THEN Goto(p, [Idle EXCEPT
                    !.pc = "cs_save", !.seller = metadata.sellerUserId, !.intent = i,
                    !.doc = seller,
                    !.pendingEarnings =
                        seller.deferredOnboarding.pendingEarnings + sellerAmount])
           ELSE Respond(p, "checkout.session.completed", 200)
    /\ UNCHANGED <<db, accounts, intents, transfers, recorded, crashedAfterTransfer>>

\* seller.deferredOnboarding = { ...seller.deferredOnboarding, pendingEarnings,
\* earningsCount }; await seller.save()
HandleCheckoutSessionCompletedSave(p, ok) ==
    /\ procs[p].pc = "cs_save"
    /\ LET s == procs[p].seller
           updated == [procs[p].doc.deferredOnboarding EXCEPT
                         !.pendingEarnings = procs[p].pendingEarnings,
                         !.earningsCount = @ + 1]
       IN  IF ~ok
           THEN /\ Respond(p, "checkout.session.completed", 500)
                /\ UNCHANGED <<db, recorded>>
           ELSE /\ db' = [db EXCEPT ![s].deferredOnboarding = updated]
                /\ recorded' = [recorded EXCEPT ![procs[p].intent] = @ + 1]
                /\ IF updated.earningsCount >= NotificationThreshold
                      /\ ~updated.onboardingNotificationSent
                   THEN Goto(p, [procs[p] EXCEPT !.pc = "cs_notify",
                                                 !.doc.deferredOnboarding = updated])
                   ELSE Respond(p, "checkout.session.completed", 200)
    /\ UNCHANGED <<accounts, intents, transfers, crashedAfterTransfer>>

\* seller.deferredOnboarding.onboardingNotificationSent = true; await seller.save()
HandleCheckoutSessionCompletedNotify(p, ok) ==
    /\ procs[p].pc = "cs_notify"
    /\ IF ~ok
       THEN /\ Respond(p, "checkout.session.completed", 500)
            /\ UNCHANGED db
       ELSE /\ db' = [db EXCEPT
                  ![procs[p].seller].deferredOnboarding.onboardingNotificationSent = TRUE]
            /\ Respond(p, "checkout.session.completed", 200)
    /\ UNCHANGED <<accounts, intents, transfers, recorded, crashedAfterTransfer>>

\* a mutation of NoPendingEarnings: every balance is taken as pending
NoPendingEarningsNever(pendingEarnings) == FALSE

\* a mutation of NoPendingEarnings: only a negative balance counts as settled
NoPendingEarningsNegativeOnly(pendingEarnings) == pendingEarnings < 0

\* if (pendingEarnings <= 0)
NoPendingEarnings(pendingEarnings) == pendingEarnings <= 0

\* a mutation of TransferFailed: the error leaves the handler and the webhook
\* answers with its status 500
TransferFailedPropagates(p) ==
    /\ Respond(p, "account.updated", 500)
    /\ UNCHANGED <<db, accounts>>

\* a mutation of TransferFailed: the error is swallowed and the run goes on
TransferFailedGoesOn(p) ==
    /\ Goto(p, [procs[p] EXCEPT !.pc = "au_payouts"])
    /\ UNCHANGED <<db, accounts>>

\* a mutation of TransferFailed: the catch block clears the ledger
TransferFailedClearsLedger(p) ==
    /\ Respond(p, "account.updated:catch", 200)
    /\ db' = [db EXCEPT ![procs[p].seller].deferredOnboarding.pendingEarnings = 0]
    /\ UNCHANGED accounts

\* transfers.create throws: control passes to the catch block, which logs
\* the error and touches neither the seller nor the account; the handler
\* returns and the webhook answers { received: true }
TransferFailed(p) ==
    /\ Respond(p, "account.updated:catch", 200)
    /\ UNCHANGED <<db, accounts>>

\* case "account.updated": the isFullyVerified test, then
\* User.findOne({ stripeAccountId: account.id }) and the pendingEarnings test.
\* The event carries the provider's view of the account.
HandleAccountUpdated(p, a, ok) ==
    /\ procs[p].pc = "wh_dispatch"
    /\ accounts[a].created
    /\ LET s == FindByStripeAccountId(a)
           pendingEarnings ==
               IF s = 0 THEN 0 ELSE db[s].deferredOnboarding.pendingEarnings
       IN  IF ~IsFullyVerified(accounts[a])
           THEN Respond(p, "account.updated:not-verified", 200)
           ELSE IF ~ok
           THEN Respond(p, "account.updated", 500)
           ELSE IF s = 0
           THEN Respond(p, "account.updated:no-seller", 200)
           ELSE IF NoPendingEarnings(pendingEarnings)
           THEN Goto(p, [Idle EXCEPT !.pc = "au_connected", !.seller = s, !.acct = a,
                                     !.doc = db[s]])
           ELSE Goto(p, [Idle EXCEPT !.pc = "au_transfer", !.seller = s, !.acct = a,
                                     !.doc = db[s],
                                     !.pendingEarnings = pendingEarnings])
    /\ UNCHANGED <<db, accounts, intents, transfers, recorded,
                   crashedAfterTransfer>>

\* a mutation of HandleAccountUpdatedConnected: the branch also puts the
\* account on daily payouts
HandleAccountUpdatedConnectedSetsDaily(p, ok) ==
    /\ procs[p].pc = "au_connected"
    /\ IF ~ok
       THEN /\ Respond(p, "account.updated", 500)
            /\ UNCHANGED <<db, accounts>>
       ELSE /\ db' = [db EXCEPT ![procs[p].seller].isStripeConnected = TRUE]
            /\ accounts' = [accounts EXCEPT ![procs[p].acct].interval = "daily"]
            /\ Respond(p, "account.updated:no-pending", 200)
    /\ UNCHANGED <<intents, transfers, recorded, crashedAfterTransfer>>

\* pendingEarnings <= 0: seller.isStripeConnected = true; await seller.save()
HandleAccountUpdatedConnected(p, ok) ==
    /\ procs[p].pc = "au_connected"
    /\ IF ~ok
       THEN /\ Respond(p, "account.updated", 500)
            /\ UNCHANGED db
       ELSE /\ db' = [db EXCEPT ![procs[p].seller].isStripeConnected =
                        IF procs[p].doc.isStripeConnected THEN @ ELSE TRUE]
            /\ Respond(p, "account.updated:no-pending", 200)
    /\ UNCHANGED <<accounts, intents, transfers, recorded, crashedAfterTransfer>>

\* const transfer = await stripe.transfers.create({ amount, currency,
\* destination, description, metadata }): no options argument, so no
\* idempotency key. A failure is caught by the catch block, which logs it.
HandleAccountUpdatedTransfer(p, ok) ==
    /\ procs[p].pc = "au_transfer"
    /\ ok => Len(transfers) < MaxTransfers
    /\ IF ~ok
       THEN /\ TransferFailed(p)
            /\ UNCHANGED transfers
       ELSE /\ transfers' = Append(transfers,
                    [amount |-> TransferAmount(procs[p].pendingEarnings),
                     destination |-> procs[p].acct,
                     seller_user_id |-> procs[p].doc.clerkUserId,
                     earnings_count |-> procs[p].doc.deferredOnboarding.earningsCount,
                     idempotencyKey |-> NoIdempotencyKey])
            /\ Goto(p, [procs[p] EXCEPT !.pc = "au_payouts",
                                        !.transfer = Len(transfers) + 1])
            /\ UNCHANGED <<db, accounts>>
    /\ UNCHANGED <<intents, recorded, crashedAfterTransfer>>

\* await stripe.accounts.update(account.id, { settings: { payouts:
\* { schedule: { interval: "daily" } } } })
HandleAccountUpdatedPayouts(p, ok) ==
    /\ procs[p].pc = "au_payouts"
    /\ IF ~ok
       THEN /\ Respond(p, "account.updated:catch", 200)
            /\ crashedAfterTransfer' =
                   [crashedAfterTransfer EXCEPT ![procs[p].seller] = TRUE]
            /\ UNCHANGED accounts
       ELSE /\ accounts' = [accounts EXCEPT ![procs[p].acct].interval = "daily"]
            /\ Goto(p, [procs[p] EXCEPT !.pc = "au_save"])
            /\ UNCHANGED crashedAfterTransfer
    /\ UNCHANGED <<db, intents, transfers, recorded>>

\* seller.isStripeConnected = true; seller.deferredOnboarding.pendingEarnings = 0;
\* ...; await seller.save()
HandleAccountUpdatedSave(p, ok) ==
    /\ procs[p].pc = "au_save"
    /\ IF ~ok
       THEN /\ crashedAfterTransfer' =
                   [crashedAfterTransfer EXCEPT ![procs[p].seller] = TRUE]
            /\ Respond(p, "account.updated:catch", 200)
            /\ UNCHANGED db
       ELSE /\ db' = [db EXCEPT
                  ![procs[p].seller].isStripeConnected =
                      IF procs[p].doc.isStripeConnected THEN @ ELSE TRUE,
                  ![procs[p].seller].deferredOnboarding.pendingEarnings = 0]
            /\ Respond(p, "account.updated", 200)
            /\ UNCHANGED crashedAfterTransfer
    /\ UNCHANGED <<accounts, intents, transfers, recorded>>

\* -------------------------------------- POST /api/create-deferred-account
\* a mutation of ExistingAccountVerified: the test of the lookup is inverted,
\* an identifier the provider confirms is replaced
ExistingAccountVerifiedOnFailure(accountId, retrieveOk) ==
    accountId # 0 /\ ~retrieveOk

\* a mutation of ExistingAccountVerified: no stored identifier is taken as
\* verified, every request creates an account
ExistingAccountVerifiedNever(accountId, retrieveOk) == FALSE

\* if (accountId) { try { await stripe.accounts.retrieve(accountId); return
\* ... status: "existing" } catch { accountId = null; ... } }
ExistingAccountVerified(accountId, retrieveOk) == accountId # 0 /\ retrieveOk

\* let user = await User.findOne({ clerkUserId: userId }), or a new User;
\* if it has a stripeAccountId, stripe.accounts.retrieve confirms it, and any
\* error of the retrieve clears the identifier and falls through to creation.
\* caller is "payment" when create-deferred-payment fetches this route.
\* existingAccount records the lookup: "none" when no identifier is stored,
\* "verified" when the retrieve returned, "not-found" when it threw.
FindOrCreateUser(p, userId, caller, price, retrieveOk) ==
    LET found == FindByClerkUserId(userId)
        user == IF found = NoUser THEN NewUser(userId) ELSE found
        accountId == user.stripeAccountId
        existingAccount == IF accountId = 0 THEN "none"
                           ELSE IF retrieveOk THEN "verified" ELSE "not-found"
    IN  IF ExistingAccountVerified(accountId, retrieveOk)
        THEN IF caller = "payment"
             THEN Goto(p, [Idle EXCEPT !.pc = "cp_session", !.caller = caller,
                                       !.seller = userId, !.price = price,
                                       !.doc = procs[p].doc, !.acct = accountId])
             ELSE Respond(p, "create-deferred-account:existing", 200)
        ELSE Goto(p, [Idle EXCEPT !.pc = "ca_create", !.caller = caller,
                                  !.seller = userId, !.price = price,
                                  !.doc = [user EXCEPT !.stripeAccountId = 0],
                                  !.isNew = (found = NoUser),
                                  !.existingAccount = existingAccount])

\* the route called directly; userId, email and country are required
CreateDeferredAccount(p, userId, hasRequiredFields, retrieveOk) ==
    /\ procs[p].pc = "idle"
    /\ IF ~hasRequiredFields
       THEN Respond(p, "create-deferred-account", 400)
       ELSE FindOrCreateUser(p, userId, "none", 0, retrieveOk)
    /\ UNCHANGED <<db, accounts, intents, transfers, recorded, crashedAfterTransfer>>

\* a mutation of AccountRouteFails: the payment route ignores the failure and
\* goes on to the capability lookup
AccountRouteFailsGoesOn(p) ==
    IF procs[p].caller = "payment"
    THEN Goto(p, [procs[p] EXCEPT !.pc = "cp_session"])
    ELSE Respond(p, "create-deferred-account", 400)

\* an error of the route: status 400; create-deferred-payment turns a
\* response that is not ok into its own status 500
AccountRouteFails(p) ==
    IF procs[p].caller = "payment"
    THEN Respond(p, "create-deferred-payment:seller-account", 500)
    ELSE Respond(p, "create-deferred-account", 400)

\* const account = await stripe.accounts.create({ type: "express", ...,
\* settings: { payouts: { schedule: { interval: "manual" } } },
\* metadata: { onboarding_type: "deferred", platform_user_id: userId } })
CreateDeferredAccountCreate(p, ok) ==
    /\ procs[p].pc = "ca_create"
    /\ ok => NumCreated < MaxAccounts
    /\ IF ~ok
       THEN /\ AccountRouteFails(p)
            /\ UNCHANGED accounts
       ELSE LET accountId == NumCreated + 1
            IN  /\ accounts' = [accounts EXCEPT ![accountId] =
                       [created |-> TRUE, platform_user_id |-> procs[p].seller,
                        interval |-> "manual", charges_enabled |-> FALSE,
                        transfers |-> "inactive"]]
                /\ Goto(p, [procs[p] EXCEPT !.pc = "ca_save", !.acct = accountId])
    /\ UNCHANGED <<db, intents, transfers, recorded, crashedAfterTransfer>>

\* user.stripeAccountId = accountId; user.isStripeConnected = false;
\* user.deferredOnboarding = { hasMinimalAccount: true, pendingEarnings: 0,
\* earningsCount: 0, onboardingNotificationSent: false }; await user.save().
\* The save of a new document inserts it, and fails on the unique index of
\* clerkUserId when another request inserted the user first.
CreateDeferredAccountSave(p, ok) ==
    /\ procs[p].pc = "ca_save"
    /\ LET s == procs[p].seller
           tracking == [hasMinimalAccount |-> TRUE, pendingEarnings |-> 0,
                        earningsCount |-> 0, onboardingNotificationSent |-> FALSE]
       IN  /\ ok => ~(procs[p].isNew /\ db[s] # NoUser)
           /\ IF ~ok
              THEN /\ AccountRouteFails(p)
                   /\ UNCHANGED db
              ELSE /\ db' = [db EXCEPT ![s] =
                          [clerkUserId |-> s,
                           stripeAccountId |-> procs[p].acct,
                           isStripeConnected |->
                               IF procs[p].isNew \/ procs[p].doc.isStripeConnected
                               THEN FALSE ELSE @.isStripeConnected,
                           deferredOnboarding |-> tracking]]
                   /\ IF procs[p].caller = "payment"
                      THEN Goto(p, [procs[p] EXCEPT !.pc = "cp_session"])
                      ELSE Respond(p, "create-deferred-account", 200)
    /\ UNCHANGED <<accounts, intents, transfers, recorded, crashedAfterTransfer>>

\* -------------------------------------- POST /api/create-deferred-payment
\* a mutation of PlatformFeeAmount: the fee is truncated, not rounded
PlatformFeeAmountTruncated(productAmount) == (productAmount * 10) \div 100

\* const platformFeeAmount = Math.round(productAmount * 0.1)
PlatformFeeAmount(productAmount) == (productAmount * 10 + 50) \div 100

\* a mutation of SellerAmount: the subtraction is the wrong way round
SellerAmountFeeMinusGross(productAmount) ==
    PlatformFeeAmount(productAmount) - productAmount

\* const sellerAmount = productAmount - platformFeeAmount
SellerAmount(productAmount) == productAmount - PlatformFeeAmount(productAmount)

\* a mutation of PaymentIntentData: the platform-held plan also names the
\* seller's account as transfer destination
PaymentIntentDataHeldWithDestination(useDirectTransfer, productAmount, sellerUserId, accountId) ==
    [unit_amount |-> productAmount,
     application_fee_amount |->
         IF useDirectTransfer THEN PlatformFeeAmount(productAmount) ELSE Absent,
     destination |-> accountId,
     platformFeeAmount |-> PlatformFeeAmount(productAmount),
     sellerUserId |-> sellerUserId,
     payment_type |-> IF useDirectTransfer THEN "direct_transfer" ELSE "platform_held",
     seller_amount |-> IF useDirectTransfer THEN Absent ELSE SellerAmount(productAmount)]

\* const paymentIntentData = useDirectTransfer ? { application_fee_amount,
\* transfer_data: { destination }, metadata: {...} } : { metadata: {...} }
PaymentIntentData(useDirectTransfer, productAmount, sellerUserId, accountId) ==
    IF useDirectTransfer
    THEN [unit_amount |-> productAmount,
          application_fee_amount |-> PlatformFeeAmount(productAmount),
          destination |-> accountId,
          platformFeeAmount |-> PlatformFeeAmount(productAmount),
          sellerUserId |-> sellerUserId,
          payment_type |-> "direct_transfer",
          seller_amount |-> Absent]
    ELSE [unit_amount |-> productAmount,
          application_fee_amount |-> Absent,
          destination |-> Absent,
          platformFeeAmount |-> PlatformFeeAmount(productAmount),
          sellerUserId |-> sellerUserId,
          payment_type |-> "platform_held",
          seller_amount |-> SellerAmount(productAmount)]

\* const seller = await User.findOne({ clerkUserId: sellerUserId }); 404
\* without one; a seller without a stripeAccountId gets one from
\* create-deferred-account
CreateDeferredPayment(p, sellerUserId, productAmount, ok) ==
    /\ procs[p].pc = "idle"
    /\ Len(intents) < MaxIntents
    /\ LET seller == FindByClerkUserId(sellerUserId)
       IN  IF ~ok
           THEN Respond(p, "create-deferred-payment", 500)
           ELSE IF seller = NoUser
           THEN Respond(p, "create-deferred-payment", 404)
           ELSE Goto(p, [Idle EXCEPT
                    !.pc = IF seller.stripeAccountId = 0 THEN "cp_fetch"
                           ELSE "cp_session",
                    !.caller = "payment", !.seller = sellerUserId,
                    !.price = productAmount, !.acct = seller.stripeAccountId])
    /\ UNCHANGED <<db, accounts, intents, transfers, recorded, crashedAfterTransfer>>

\* await fetch(`${NEXT_PUBLIC_BASE_URL}/api/create-deferred-account`, ...)
CreateDeferredPaymentFetch(p, retrieveOk) ==
    /\ procs[p].pc = "cp_fetch"
    /\ FindOrCreateUser(p, procs[p].seller, "payment", procs[p].price, retrieveOk)
    /\ UNCHANGED <<db, accounts, intents, transfers, recorded, crashedAfterTransfer>>

\* a mutation of HasTransferCapability: the account's charges, not its
\* transfers capability, decide
HasTransferCapabilityByCharges(sellerAccount) == sellerAccount.charges_enabled

\* const hasTransferCapability = sellerAccount.capabilities?.transfers === "active"
HasTransferCapability(sellerAccount) == sellerAccount.transfers = "active"

\* a mutation of CapabilityQueryFailed: the error of the retrieve ends the
\* request with status 500
CapabilityQueryFailedSurfaces(p) ==
    Respond(p, "create-deferred-payment", 500)

\* catch (error) { console.log("Could not check seller capabilities");
\* useDirectTransfer = false }: the route goes on to create the session
CapabilityQueryFailed(p) ==
    Goto(p, [procs[p] EXCEPT !.pc = "cp_create", !.capability = "failed",
                             !.useDirectTransfer = FALSE])

\* let useDirectTransfer = false; try { const sellerAccount = await
\* stripe.accounts.retrieve(sellerStripeAccountId); useDirectTransfer =
\* hasTransferCapability } catch ...
CreateDeferredPaymentCapability(p, retrieveOk) ==
    /\ procs[p].pc = "cp_session"
    /\ LET sellerAccount == accounts[procs[p].acct]
       IN  IF ~retrieveOk
           THEN CapabilityQueryFailed(p)
           ELSE Goto(p, [procs[p] EXCEPT
                    !.pc = "cp_create",
                    !.capability = sellerAccount.transfers,
                    !.useDirectTransfer = HasTransferCapability(sellerAccount)])
    /\ UNCHANGED <<db, accounts, intents, transfers, recorded, crashedAfterTransfer>>

\* const session = await stripe.checkout.sessions.create({ ...,
\* payment_intent_data: paymentIntentData, ... }); the response carries the
\* session url; an error is answered 500 by the route's catch
CreateDeferredPaymentSession(p, ok) ==
    /\ procs[p].pc = "cp_create"
    /\ ok => Len(intents) < MaxIntents
    /\ IF ~ok
       THEN /\ Respond(p, "create-deferred-payment", 500)
            /\ UNCHANGED intents
       ELSE /\ intents' = Append(intents,
                   PaymentIntentData(procs[p].useDirectTransfer, procs[p].price,
                                     procs[p].seller, procs[p].acct))
            /\ Respond(p, "create-deferred-payment", 200)
    /\ UNCHANGED <<db, accounts, transfers, recorded, crashedAfterTransfer>>

\* ------------------------------------------------------- the provider
\* the seller goes through the provider's onboarding: charges become
\* enabled, the transfers capability becomes active
ProviderVerifiesAccount(a, capability) ==
    /\ accounts[a].created
    /\ IF capability = "charges"
       THEN /\ ~accounts[a].charges_enabled
            /\ accounts' = [accounts EXCEPT ![a].charges_enabled = TRUE]
       ELSE /\ accounts[a].transfers # "active"
            /\ accounts' = [accounts EXCEPT ![a].transfers = "active"]
    /\ UNCHANGED <<db, intents, transfers, recorded, crashedAfterTransfer, procs, lastResponse>>

\* ------------------------------------------------ derived quantities
RECURSIVE SumOver(_, _)
\* the sum of f[i] over the finite set S
SumOver(f, S) ==
    IF S = {} THEN 0
    ELSE LET i == CHOOSE j \in S : TRUE IN f[i] + SumOver(f, S \ {i})

\* the platform-held payment intents of seller s
HeldIntents(s) ==
    {i \in 1..Len(intents) :
        intents[i].sellerUserId = s /\ intents[i].payment_type = "platform_held"}

\* what the completion handler recorded for seller s: every run counts
RecordedSum(s) ==
    SumOver([i \in 1..Len(intents) |-> recorded[i] * SellerAmountOf(intents[i])],
            HeldIntents(s))
RecordedCount(s) == SumOver(recorded, HeldIntents(s))

\* the same with each sale counted once, however often its event was handled
DistinctSum(s) ==
    SumOver([i \in 1..Len(intents) |-> SellerAmountOf(intents[i])],
            {i \in HeldIntents(s) : recorded[i] > 0})
DistinctCount(s) == Cardinality({i \in HeldIntents(s) : recorded[i] > 0})

\* the total amount of the transfers created for seller s
TransferredTotal(s) ==
    SumOver([k \in 1..Len(transfers) |-> transfers[k].amount],
            {k \in 1..Len(transfers) : transfers[k].seller_user_id = s})

\* the number of transfers created for seller s
NumTransfers(s) ==
    Cardinality({k \in 1..Len(transfers) : transfers[k].seller_user_id = s})

\* a settlement run for seller s is between its findOne and its return
SettlementInFlight(s) ==
    \E q \in Procs :
        procs[q].seller = s
        /\ procs[q].pc \in {"au_connected", "au_transfer", "au_payouts", "au_save"}

\* the idempotency key a settlement transfer of seller s is to carry
SettlementKey(s) == <<s, "settlement">>

\* ---------------------------------------------------- specifications
\* no request is being served
Quiet == \A q \in Procs : procs[q].pc = "idle"

\* Requests served concurrently, every call to the provider or the database
\* free to fail. One seller account and one price keep the interleavings of
\* two requests within reach.
Next ==
    \/ \E p \in Procs, sig \in Signatures : WebhookPost(p, sig)
    \/ \E p \in Procs : WebhookOtherEvent(p)
    \/ \E p \in Procs, i \in 1..MaxIntents, ok \in BOOLEAN :
          HandleCheckoutSessionCompleted(p, i, ok)
    \/ \E p \in Procs, ok \in BOOLEAN : HandleCheckoutSessionCompletedSave(p, ok)
    \/ \E p \in Procs, ok \in BOOLEAN : HandleCheckoutSessionCompletedNotify(p, ok)
    \/ \E p \in Procs, a \in AccountIds, ok \in BOOLEAN : HandleAccountUpdated(p, a, ok)
    \/ \E p \in Procs, ok \in BOOLEAN : HandleAccountUpdatedConnected(p, ok)
    \/ \E p \in Procs, ok \in BOOLEAN : HandleAccountUpdatedTransfer(p, ok)
    \/ \E p \in Procs, ok \in BOOLEAN : HandleAccountUpdatedPayouts(p, ok)
    \/ \E p \in Procs, ok \in BOOLEAN : HandleAccountUpdatedSave(p, ok)
    \/ \E p \in Procs, s \in Sellers, f \in BOOLEAN, ok \in BOOLEAN :
          CreateDeferredAccount(p, s, f, ok)
    \/ \E p \in Procs, ok \in BOOLEAN :
          /\ ok => NumCreated < ConcurrentAccounts
          /\ CreateDeferredAccountCreate(p, ok)
    \/ \E p \in Procs, ok \in BOOLEAN : CreateDeferredAccountSave(p, ok)
    \/ \E p \in Procs, s \in Sellers, price \in ConcurrentPrices, ok \in BOOLEAN :
          CreateDeferredPayment(p, s, price, ok)
    \/ \E p \in Procs, ok \in BOOLEAN : CreateDeferredPaymentFetch(p, ok)
    \/ \E p \in Procs, ok \in BOOLEAN : CreateDeferredPaymentCapability(p, ok)
    \/ \E p \in Procs, ok \in BOOLEAN : CreateDeferredPaymentSession(p, ok)
    \/ \E a \in AccountIds, c \in {"charges", "transfers"} :
          ProviderVerifiesAccount(a, c)

Spec == Init /\ [][Next]_vars

\* the request slot of the sequential specification
SeqProcs == {1}

\* Requests served one at a time: a request is accepted only when no other
\* is in flight. Calls may still fail.
NextSeq ==
    \/ \E p \in SeqProcs, sig \in Signatures : Quiet /\ WebhookPost(p, sig)
    \/ \E p \in Procs : WebhookOtherEvent(p)
    \/ \E p \in Procs, i \in 1..MaxIntents, ok \in BOOLEAN :
          HandleCheckoutSessionCompleted(p, i, ok)
    \/ \E p \in Procs, ok \in BOOLEAN : HandleCheckoutSessionCompletedSave(p, ok)
    \/ \E p \in Procs, ok \in BOOLEAN : HandleCheckoutSessionCompletedNotify(p, ok)
    \/ \E p \in Procs, a \in AccountIds, ok \in BOOLEAN :
          HandleAccountUpdated(p, a, ok)
    \/ \E p \in Procs, ok \in BOOLEAN : HandleAccountUpdatedConnected(p, ok)
    \/ \E p \in Procs, ok \in BOOLEAN : HandleAccountUpdatedTransfer(p, ok)
    \/ \E p \in Procs, ok \in BOOLEAN : HandleAccountUpdatedPayouts(p, ok)
    \/ \E p \in Procs, ok \in BOOLEAN : HandleAccountUpdatedSave(p, ok)
    \/ \E p \in SeqProcs, s \in Sellers, f \in BOOLEAN, ok \in BOOLEAN :
          Quiet /\ CreateDeferredAccount(p, s, f, ok)
    \/ \E p \in Procs, ok \in BOOLEAN : CreateDeferredAccountCreate(p, ok)
    \/ \E p \in Procs, ok \in BOOLEAN : CreateDeferredAccountSave(p, ok)
    \/ \E p \in SeqProcs, s \in Sellers, price \in Prices, ok \in BOOLEAN :
          Quiet /\ CreateDeferredPayment(p, s, price, ok)
    \/ \E p \in Procs, ok \in BOOLEAN : CreateDeferredPaymentFetch(p, ok)
    \/ \E p \in Procs, ok \in BOOLEAN : CreateDeferredPaymentCapability(p, ok)
    \/ \E p \in Procs, ok \in BOOLEAN : CreateDeferredPaymentSession(p, ok)
    \/ \E a \in AccountIds, c \in {"charges", "transfers"} :
          ProviderVerifiesAccount(a, c)

SpecSeq == Init /\ [][NextSeq]_vars

\* Requests served one at a time, with the response of each observed in
\* lastResponse. One seller account and one price.
NextObs ==
    \/ \E p \in SeqProcs, sig \in Signatures : Quiet /\ WebhookPost(p, sig)
    \/ \E p \in Procs : WebhookOtherEvent(p)
    \/ \E p \in Procs, i \in 1..MaxIntents, ok \in BOOLEAN :
          HandleCheckoutSessionCompleted(p, i, ok)
    \/ \E p \in Procs, ok \in BOOLEAN : HandleCheckoutSessionCompletedSave(p, ok)
    \/ \E p \in Procs, ok \in BOOLEAN : HandleCheckoutSessionCompletedNotify(p, ok)
    \/ \E p \in Procs, a \in AccountIds, ok \in BOOLEAN :
          HandleAccountUpdated(p, a, ok)
    \/ \E p \in Procs, ok \in BOOLEAN : HandleAccountUpdatedConnected(p, ok)
    \/ \E p \in Procs, ok \in BOOLEAN : HandleAccountUpdatedTransfer(p, ok)
    \/ \E p \in Procs, ok \in BOOLEAN : HandleAccountUpdatedPayouts(p, ok)
    \/ \E p \in Procs, ok \in BOOLEAN : HandleAccountUpdatedSave(p, ok)
    \/ \E p \in SeqProcs, s \in Sellers, f \in BOOLEAN, ok \in BOOLEAN :
          Quiet /\ CreateDeferredAccount(p, s, f, ok)
    \/ \E p \in Procs, ok \in BOOLEAN :
          /\ ok => NumCreated < ObservedAccounts
          /\ CreateDeferredAccountCreate(p, ok)
    \/ \E p \in Procs, ok \in BOOLEAN : CreateDeferredAccountSave(p, ok)
    \/ \E p \in SeqProcs, s \in Sellers, price \in ObservedPrices, ok \in BOOLEAN :
          Quiet /\ CreateDeferredPayment(p, s, price, ok)
    \/ \E p \in Procs, ok \in BOOLEAN : CreateDeferredPaymentFetch(p, ok)
    \/ \E p \in Procs, ok \in BOOLEAN : CreateDeferredPaymentCapability(p, ok)
    \/ \E p \in Procs, ok \in BOOLEAN : CreateDeferredPaymentSession(p, ok)
    \/ \E a \in AccountIds, c \in {"charges", "transfers"} :
          ProviderVerifiesAccount(a, c)

SpecObs == InitObs /\ [][NextObs]_vars

\* the gross amounts (cents) of the specification of the fee computation
MaxGross == 25
GrossAmounts == 0..MaxGross

\* a seller provisioned by create-deferred-account: the record refers to the
\* account created for it, on manual payouts and not verified
InitFee ==
    /\ db = [s \in Sellers |->
               [NewUser(s) EXCEPT
                   !.stripeAccountId = s,
                   !.deferredOnboarding.hasMinimalAccount = TRUE]]
    /\ accounts = [a \in AccountIds |->
                     IF a \in Sellers
                     THEN [created |-> TRUE, platform_user_id |-> a,
                           interval |-> "manual", charges_enabled |-> FALSE,
                           transfers |-> "inactive"]
                     ELSE NoAccount]
    /\ intents = <<>>
    /\ transfers = <<>>
    /\ recorded = [i \in 1..MaxIntents |-> 0]
    /\ crashedAfterTransfer = [s \in Sellers |-> FALSE]
    /\ procs = [p \in Procs |-> Idle]
    /\ lastResponse = Unobserved

\* Sale sessions created one at a time for every gross amount, while the
\* provider verifies the account.
NextFee ==
    \/ \E p \in SeqProcs, s \in Sellers, price \in GrossAmounts, ok \in BOOLEAN :
          Quiet /\ CreateDeferredPayment(p, s, price, ok)
    \/ \E p \in Procs, ok \in BOOLEAN : CreateDeferredPaymentCapability(p, ok)
    \/ \E p \in Procs, ok \in BOOLEAN : CreateDeferredPaymentSession(p, ok)
    \/ \E a \in AccountIds, c \in {"charges", "transfers"} :
          ProviderVerifiesAccount(a, c)

SpecFee == InitFee /\ [][NextFee]_vars

\* Provisioning under concurrency: the two routes that create the seller's
\* account, served concurrently, every call free to fail.
NextProv ==
    \/ \E p \in Procs, s \in Sellers, f \in BOOLEAN, ok \in BOOLEAN :
          CreateDeferredAccount(p, s, f, ok)
    \/ \E p \in Procs, ok \in BOOLEAN : CreateDeferredAccountCreate(p, ok)
    \/ \E p \in Procs, ok \in BOOLEAN : CreateDeferredAccountSave(p, ok)
    \/ \E p \in Procs, s \in Sellers, price \in ConcurrentPrices, ok \in BOOLEAN :
          CreateDeferredPayment(p, s, price, ok)
    \/ \E p \in Procs, ok \in BOOLEAN : CreateDeferredPaymentFetch(p, ok)
    \/ \E p \in Procs, ok \in BOOLEAN : CreateDeferredPaymentCapability(p, ok)
    \/ \E p \in Procs, ok \in BOOLEAN : CreateDeferredPaymentSession(p, ok)

SpecProv == Init /\ [][NextProv]_vars

\* The two routes that pass the provisioning gate, served one request at a
\* time with the response observed, while the provider verifies accounts.
\* The stored account may be gone at the provider (the retrieve fails), and
\* a second account can be created.
NextGate ==
    \/ \E p \in SeqProcs, s \in Sellers, f \in BOOLEAN, ok \in BOOLEAN :
          Quiet /\ CreateDeferredAccount(p, s, f, ok)
    \/ \E p \in Procs, ok \in BOOLEAN : CreateDeferredAccountCreate(p, ok)
    \/ \E p \in Procs, ok \in BOOLEAN : CreateDeferredAccountSave(p, ok)
    \/ \E p \in SeqProcs, s \in Sellers, price \in ObservedPrices, ok \in BOOLEAN :
          Quiet /\ CreateDeferredPayment(p, s, price, ok)
    \/ \E p \in Procs, ok \in BOOLEAN : CreateDeferredPaymentFetch(p, ok)
    \/ \E p \in Procs, ok \in BOOLEAN : CreateDeferredPaymentCapability(p, ok)
    \/ \E p \in Procs, ok \in BOOLEAN : CreateDeferredPaymentSession(p, ok)
    \/ \E a \in AccountIds, c \in {"charges", "transfers"} :
          ProviderVerifiesAccount(a, c)

SpecGate == InitObs /\ [][NextGate]_vars

\* Re-provisioning under concurrency: from a provisioned seller, the
\* provisioning route and the verification events of the provider are served
\* concurrently; the lookup of the stored account may fail and a second
\* account be created.
NextReprov ==
    \/ \E p \in Procs, s \in Sellers, f \in BOOLEAN, ok \in BOOLEAN :
          CreateDeferredAccount(p, s, f, ok)
    \/ \E p \in Procs, ok \in BOOLEAN : CreateDeferredAccountCreate(p, ok)
    \/ \E p \in Procs, ok \in BOOLEAN : CreateDeferredAccountSave(p, ok)
    \/ \E p \in Procs, sig \in Signatures : WebhookPost(p, sig)
    \/ \E p \in Procs, a \in AccountIds, ok \in BOOLEAN :
          HandleAccountUpdated(p, a, ok)
    \/ \E p \in Procs, ok \in BOOLEAN : HandleAccountUpdatedConnected(p, ok)
    \/ \E a \in AccountIds, c \in {"charges", "transfers"} :
          ProviderVerifiesAccount(a, c)

SpecReprov == InitFee /\ [][NextReprov]_vars

\* Failure-free sequential execution: requests are served one at a time and
\* every call to the provider and the database succeeds, so the lookup of a
\* stored account never fails and no seller is provisioned twice.
NextClean ==
    \/ \E p \in SeqProcs, sig \in Signatures : Quiet /\ WebhookPost(p, sig)
    \/ \E p \in Procs : WebhookOtherEvent(p)
    \/ \E p \in Procs, i \in 1..MaxIntents :
          HandleCheckoutSessionCompleted(p, i, TRUE)
    \/ \E p \in Procs : HandleCheckoutSessionCompletedSave(p, TRUE)
    \/ \E p \in Procs : HandleCheckoutSessionCompletedNotify(p, TRUE)
    \/ \E p \in Procs, a \in AccountIds : HandleAccountUpdated(p, a, TRUE)
    \/ \E p \in Procs : HandleAccountUpdatedConnected(p, TRUE)
    \/ \E p \in Procs : HandleAccountUpdatedTransfer(p, TRUE)
    \/ \E p \in Procs : HandleAccountUpdatedPayouts(p, TRUE)
    \/ \E p \in Procs : HandleAccountUpdatedSave(p, TRUE)
    \/ \E p \in SeqProcs, s \in Sellers, f \in BOOLEAN :
          Quiet /\ CreateDeferredAccount(p, s, f, TRUE)
    \/ \E p \in Procs : CreateDeferredAccountCreate(p, TRUE)
    \/ \E p \in Procs : CreateDeferredAccountSave(p, TRUE)
    \/ \E p \in SeqProcs, s \in Sellers, price \in Prices :
          Quiet /\ CreateDeferredPayment(p, s, price, TRUE)
    \/ \E p \in Procs : CreateDeferredPaymentFetch(p, TRUE)
    \/ \E p \in Procs : CreateDeferredPaymentCapability(p, TRUE)
    \/ \E p \in Procs : CreateDeferredPaymentSession(p, TRUE)
    \/ \E a \in AccountIds, c \in {"charges", "transfers"} :
          ProviderVerifiesAccount(a, c)

SpecClean == Init /\ [][NextClean]_vars

\* a seller provisioned by create-deferred-account for whom one platform-held
\* sale was created by create-deferred-payment and recorded by the completion
\* handler: the ledger holds its net amount, the account is on manual payouts
InitHeld ==
    \E price \in ObservedPrices, held \in Sellers :
        /\ db = [s \in Sellers |->
                   [NewUser(s) EXCEPT
                       !.stripeAccountId = s,
                       !.deferredOnboarding =
                           [hasMinimalAccount |-> TRUE,
                            pendingEarnings |->
                                IF s = held THEN SellerAmount(price) ELSE 0,
                            earningsCount |-> IF s = held THEN 1 ELSE 0,
                            onboardingNotificationSent |-> FALSE]]]
        /\ accounts = [a \in AccountIds |->
                         IF a \in Sellers
                         THEN [created |-> TRUE, platform_user_id |-> a,
                               interval |-> "manual", charges_enabled |-> FALSE,
                               transfers |-> "inactive"]
                         ELSE NoAccount]
        /\ intents = <<PaymentIntentData(FALSE, price, held, held)>>
        /\ transfers = <<>>
        /\ recorded = [i \in 1..MaxIntents |-> IF i = 1 THEN 1 ELSE 0]
        /\ crashedAfterTransfer = [s \in Sellers |-> FALSE]
        /\ procs = [p \in Procs |-> Idle]
        /\ lastResponse = Unobserved

\* Settlement against re-provisioning: the verification events of the
\* provider and the provisioning route are served concurrently for a seller
\* with a pending balance; any call may fail, and the lookup of the stored
\* account may fail so that a second account is created.
NextSettle ==
    \/ \E p \in Procs, s \in Sellers, f \in BOOLEAN, ok \in BOOLEAN :
          CreateDeferredAccount(p, s, f, ok)
    \/ \E p \in Procs, ok \in BOOLEAN : CreateDeferredAccountCreate(p, ok)
    \/ \E p \in Procs, ok \in BOOLEAN : CreateDeferredAccountSave(p, ok)
    \/ \E p \in Procs, sig \in Signatures : WebhookPost(p, sig)
    \/ \E p \in Procs, a \in AccountIds, ok \in BOOLEAN :
          HandleAccountUpdated(p, a, ok)
    \/ \E p \in Procs, ok \in BOOLEAN : HandleAccountUpdatedConnected(p, ok)
    \/ \E p \in Procs, ok \in BOOLEAN : HandleAccountUpdatedTransfer(p, ok)
    \/ \E p \in Procs, ok \in BOOLEAN : HandleAccountUpdatedPayouts(p, ok)
    \/ \E p \in Procs, ok \in BOOLEAN : HandleAccountUpdatedSave(p, ok)
    \/ \E a \in AccountIds, c \in {"charges", "transfers"} :
          ProviderVerifiesAccount(a, c)

SpecSettle == InitHeld /\ [][NextSettle]_vars

\* ------------------------------------------------------------- claims
\* the settlement run of request p saves the seller in this step
SettlementSaved(p) ==
    procs[p].pc = "au_save" /\ db' # db

\* C1: once a settlement run of a seller failed after its transfer succeeded,
\* a later run issues no second transfer for that seller, and a later run
\* that saves leaves the pending balance at 0.
C1_NoSecondTransferAfterCrash ==
    [][\A s \in Sellers :
          crashedAfterTransfer[s] =>
              /\ NumTransfers(s)' = NumTransfers(s)
              /\ \A p \in Procs :
                     (procs[p].seller = s /\ SettlementSaved(p)) =>
                         db'[s].deferredOnboarding.pendingEarnings = 0]_vars

\* C2: every settlement transfer carries the idempotency key derived from
\* the seller it settles.
C2_TransfersCarrySettlementKey ==
    \A k \in 1..Len(transfers) :
        transfers[k].idempotencyKey = SettlementKey(transfers[k].seller_user_id)

\* C3: with requests served one at a time, a settlement run transfers
\* exactly the pending balance B > 0 to the seller's account and its save
\* zeroes the balance and marks the seller connected; a run that then finds
\* the balance at 0 issues no transfer and changes nothing.
C3_SequentialRedelivery ==
    [][\A p \in Procs :
          LET s == procs[p].seller
              ledger == db[s].deferredOnboarding
          IN  /\ (procs[p].pc = "au_transfer" /\ transfers' # transfers) =>
                     /\ ledger.pendingEarnings > 0
                     /\ Len(transfers') = Len(transfers) + 1
                     /\ transfers'[Len(transfers')].amount = ledger.pendingEarnings
                     /\ transfers'[Len(transfers')].destination = db[s].stripeAccountId
              /\ SettlementSaved(p) =>
                     /\ db'[s].deferredOnboarding.pendingEarnings = 0
                     /\ db'[s].isStripeConnected
                     /\ transfers[procs[p].transfer].amount = ledger.pendingEarnings
              /\ (procs[p].pc = "au_connected" /\ procs'[p] # procs[p]) =>
                     /\ transfers' = transfers
                     /\ accounts' = accounts
                     /\ db[s].isStripeConnected => db' = db]_vars

\* C3 witness: the second run of the same event, after the first transferred
\* the balance, is on the branch that only marks the seller connected
C3_Witness ==
    \E p \in Procs :
        /\ procs[p].pc = "au_connected"
        /\ NumTransfers(procs[p].seller) = 1
        /\ transfers[1].destination = procs[p].acct
        /\ transfers[1].amount > 0
        /\ db[procs[p].seller].isStripeConnected
        /\ db[procs[p].seller].deferredOnboarding.pendingEarnings = 0
        /\ ~crashedAfterTransfer[procs[p].seller]

\* C4: with no failed run, the total transferred to a seller never exceeds
\* the total net amount recorded as platform-held for that seller.
C4_TransferredAtMostRecorded ==
    \A s \in Sellers :
        ~crashedAfterTransfer[s] => TransferredTotal(s) <= RecordedSum(s)

\* C5: handling the completion event of a sale again changes neither the
\* pending balance nor the sale count: both stay within what the distinct
\* sales recorded account for.
C5_RecordedOncePerSale ==
    \A s \in Sellers :
        /\ db[s].deferredOnboarding.earningsCount <= DistinctCount(s)
        /\ db[s].deferredOnboarding.pendingEarnings <= DistinctSum(s)

\* C6: when the completion handlers of distinct sales of a seller have all
\* returned (and nothing was settled or provisioned anew), the pending
\* balance is the sum of their net amounts and the sale count their number.
C6_NoLostUpdate ==
    \A s \in Sellers :
        ( /\ \A q \in Procs : procs[q].pc \in {"cs_save", "cs_notify"} => procs[q].seller # s
          /\ \A i \in 1..MaxIntents : recorded[i] <= 1
          /\ NumTransfers(s) = 0
          /\ NumCreated <= 1 )
        => /\ db[s].deferredOnboarding.pendingEarnings = RecordedSum(s)
           /\ db[s].deferredOnboarding.earningsCount = RecordedCount(s)

\* C7: a sale recorded between a settlement run's read of the pending
\* balance and its save is not lost: after the save the balance holds what
\* was recorded beyond the amount transferred, and the sale count is kept
\* (each sale's event handled once).
C7_SettlementKeepsLateSale ==
    [][\A p \in Procs :
          LET s == procs[p].seller
              ledger == db[s].deferredOnboarding
          IN  ( /\ SettlementSaved(p)
                /\ ledger.pendingEarnings > procs[p].pendingEarnings
                /\ \A i \in 1..MaxIntents : recorded[i] <= 1 ) =>
                  /\ db'[s].deferredOnboarding.pendingEarnings =
                         ledger.pendingEarnings - procs[p].pendingEarnings
                  /\ db'[s].deferredOnboarding.earningsCount = ledger.earningsCount]_vars

\* C8: with no settlement in flight, a seller marked connected (VERIFIED)
\* has pending balance 0.
C8_VerifiedHasNoPendingBalance ==
    \A s \in Sellers :
        (db[s].isStripeConnected /\ ~SettlementInFlight(s)) =>
            db[s].deferredOnboarding.pendingEarnings = 0

\* C9: a non-zero pending balance changes only by a completion handler
\* adding its sale's net amount or by a settlement run's save resetting it
\* to zero.
C9_OnlySaleAndSettlementChangeBalance ==
    [][\A s \in Sellers :
          LET before == db[s].deferredOnboarding.pendingEarnings
              after == db'[s].deferredOnboarding.pendingEarnings
          IN  (before # 0 /\ after # before) =>
                  \/ \E p \in Procs :
                        /\ procs[p].pc = "cs_save" /\ procs[p].seller = s
                        /\ after = before + SellerAmountOf(intents[procs[p].intent])
                  \/ \E p \in Procs :
                        /\ procs[p].seller = s /\ SettlementSaved(p)
                        /\ after = 0]_vars

\* C10: in a settlement run with pending balance > 0, the ledger is zeroed,
\* the seller marked connected and the payout schedule flipped only after
\* the run's transfer was created; when the transfer fails the run ends
\* and changes nothing.
C10_ClearOnlyAfterTransfer ==
    [][\A p \in Procs :
          /\ ( /\ procs[p].pc \in {"au_payouts", "au_save"}
               /\ procs'[p] # procs[p]
               /\ (db' # db \/ accounts' # accounts) )
             => /\ procs[p].transfer \in 1..Len(transfers)
                /\ transfers[procs[p].transfer].destination = procs[p].acct
                /\ transfers[procs[p].transfer].amount =
                       TransferAmount(procs[p].pendingEarnings)
          /\ (procs[p].pc = "au_transfer" /\ procs'[p] # procs[p]
                 /\ transfers' = transfers)
             => /\ procs'[p].pc = "idle"
                /\ db' = db
                /\ accounts' = accounts]_vars

\* C10 witness: a run has created its transfer, flipped the payout schedule
\* and saved the seller connected with the balance zeroed
C10_Witness ==
    \E s \in Sellers :
        /\ db[s].isStripeConnected
        /\ db[s].deferredOnboarding.pendingEarnings = 0
        /\ db[s].deferredOnboarding.earningsCount > 0
        /\ NumTransfers(s) = 1
        /\ accounts[db[s].stripeAccountId].interval = "daily"

\* C11: when the transfer of a settlement run fails, the run ends there and
\* the seller record and the provider's accounts are what they were before:
\* status, pending balance, sale count and payout schedule are unchanged,
\* and the pending balance a later event finds is the one this run read.
C11_FailedTransferChangesNothing ==
    [][\A p \in Procs :
          (procs[p].pc = "au_transfer" /\ procs'[p] # procs[p]
               /\ transfers' = transfers)
          => /\ db' = db
             /\ accounts' = accounts
             /\ procs'[p] = Idle
             /\ db'[procs[p].seller].deferredOnboarding.pendingEarnings =
                    procs[p].pendingEarnings]_vars

\* C11 witness: a settlement run ended in its catch block with no transfer
\* created; the seller still has the balance, is not connected, and the
\* account is on manual payouts
C11_Witness ==
    \E s \in Sellers :
        /\ lastResponse = <<"account.updated:catch", 200>>
        /\ Quiet
        /\ transfers = <<>>
        /\ db[s].deferredOnboarding.pendingEarnings > 0
        /\ db[s].deferredOnboarding.earningsCount > 0
        /\ ~db[s].isStripeConnected
        /\ IsFullyVerified(accounts[db[s].stripeAccountId])
        /\ accounts[db[s].stripeAccountId].interval = "manual"

\* C12: a settlement run whose transfer failed signals the failure: the
\* webhook request is answered with an error status, which is what makes the
\* provider deliver the event again; the retry that takes the seller to
\* connected with balance 0 rests on that signal.
C12_FailedTransferIsSignalled ==
    [][\A p \in Procs :
          (procs[p].pc = "au_transfer" /\ procs'[p] # procs[p]
               /\ transfers' = transfers)
          => lastResponse'[2] >= 400]_vars

\* C13: a seller that is not connected (not VERIFIED) has its account on the
\* manual payout schedule, in every state where no settlement run of the
\* seller is under way.
C13_ManualUnlessVerified ==
    \A s \in Sellers :
        ( /\ db[s].stripeAccountId # 0
          /\ ~db[s].isStripeConnected
          /\ ~SettlementInFlight(s) )
        => accounts[db[s].stripeAccountId].interval = "manual"

\* C14: for every sale session created, the platform fee is the gross amount
\* times 1000 basis points (one tenth) rounded half up, and fee plus seller
\* net amount is the gross amount exactly: a platform-held session carries
\* net = gross - fee, a direct one takes the fee as its application fee.
C14_FeePlusNetIsGross ==
    \A i \in 1..Len(intents) :
        LET gross == intents[i].unit_amount
            fee == intents[i].platformFeeAmount
        IN  /\ 10 * fee <= gross + 5
            /\ gross + 5 < 10 * (fee + 1)
            /\ fee >= 0 /\ fee <= gross
            /\ intents[i].payment_type = "platform_held" =>
                   fee + intents[i].seller_amount = gross
            /\ intents[i].payment_type = "direct_transfer" =>
                   intents[i].application_fee_amount = fee

\* C14 witness: a platform-held session for a gross amount whose tenth ends
\* in one half (25 cents: fee 3, net 22)
C14_Witness ==
    \E i \in 1..Len(intents) :
        /\ intents[i].unit_amount = 25
        /\ intents[i].payment_type = "platform_held"
        /\ intents[i].platformFeeAmount = 3
        /\ intents[i].seller_amount = 22

\* C15: the strategy of a sale session is direct_transfer exactly when the
\* lookup of the seller's account at the provider, made by the request that
\* creates the session, reported the transfers capability active; a lookup
\* that reports anything else, or fails, gives platform_held. The record's
\* isStripeConnected plays no part.
C15_DirectIffCapabilityActive ==
    [][\A p \in Procs :
          /\ (procs[p].pc = "cp_session" /\ procs'[p] # procs[p]) =>
                 /\ procs'[p].useDirectTransfer <=> procs'[p].capability = "active"
                 /\ procs'[p].capability \in
                        {"failed", accounts[procs[p].acct].transfers}
          /\ (procs[p].pc = "cp_create" /\ intents' # intents) =>
                 intents'[Len(intents')].payment_type =
                     IF procs[p].capability = "active"
                     THEN "direct_transfer" ELSE "platform_held"]_vars

\* C15 witness: a direct session of a seller whose account has the transfers
\* capability active while the record still says not connected
C15_Witness ==
    \E i \in 1..Len(intents) :
        /\ intents[i].payment_type = "direct_transfer"
        /\ intents[i].destination = db[intents[i].sellerUserId].stripeAccountId
        /\ accounts[intents[i].destination].transfers = "active"
        /\ ~db[intents[i].sellerUserId].isStripeConnected

\* C16: the capability lookup never ends the request: whether it succeeds or
\* fails the route goes on to create the session, with nothing answered yet.
\* After a failed lookup the session created is platform_held, configures no
\* transfer destination and no application fee, and the request is answered
\* 200.
C16_FailedLookupFallsBackToHeld ==
    [][\A p \in Procs :
          /\ (procs[p].pc = "cp_session" /\ procs'[p] # procs[p]) =>
                 /\ procs'[p].pc = "cp_create"
                 /\ lastResponse' = lastResponse
                 /\ procs'[p].capability = "failed" => ~procs'[p].useDirectTransfer
          /\ (procs[p].pc = "cp_create" /\ procs[p].capability = "failed"
                 /\ intents' # intents) =>
                 /\ Len(intents') = Len(intents) + 1
                 /\ intents'[Len(intents')].payment_type = "platform_held"
                 /\ intents'[Len(intents')].destination = Absent
                 /\ intents'[Len(intents')].application_fee_amount = Absent
                 /\ lastResponse' = <<"create-deferred-payment", 200>>]_vars

\* C16 witness: the lookup failed for an account whose transfers capability
\* is active, and the request is about to create the session as platform_held
C16_Witness ==
    \E p \in Procs :
        /\ procs[p].pc = "cp_create"
        /\ procs[p].capability = "failed"
        /\ ~procs[p].useDirectTransfer
        /\ accounts[procs[p].acct].transfers = "active"

\* C17: a seller none of whose sales was routed platform_held has pending
\* balance 0 and sale count 0; a completion event of a sale that is not
\* platform_held records nothing and no run of the handler gets past the
\* payment type test for it.
C17_DirectSalesLeaveLedgerAlone ==
    /\ \A s \in Sellers :
           HeldIntents(s) = {} =>
               /\ db[s].deferredOnboarding.pendingEarnings = 0
               /\ db[s].deferredOnboarding.earningsCount = 0
               /\ ~db[s].deferredOnboarding.onboardingNotificationSent
    /\ \A i \in 1..Len(intents) :
           intents[i].payment_type # "platform_held" =>
               /\ recorded[i] = 0
               /\ \A p \in Procs :
                      procs[p].pc \in {"cs_save", "cs_notify"} => procs[p].intent # i

\* C17 witness: the completion event of a direct sale was handled and
\* answered 200; the seller, with direct sales only, has balance and count 0
C17_Witness ==
    \E s \in Sellers :
        /\ lastResponse = <<"checkout.session.completed", 200>>
        /\ Quiet
        /\ Len(intents) > 0
        /\ \A i \in 1..Len(intents) :
               intents[i].sellerUserId = s /\ intents[i].payment_type = "direct_transfer"
        /\ db[s].stripeAccountId # 0
        /\ db[s].deferredOnboarding.pendingEarnings = 0
        /\ db[s].deferredOnboarding.earningsCount = 0

\* C18: the sale count of a seller never decreases: no operation, settlement
\* and provisioning included, resets it.
C18_SaleCountNeverDecreases ==
    [][\A s \in Sellers :
          db'[s].deferredOnboarding.earningsCount >=
              db[s].deferredOnboarding.earningsCount]_vars

\* the accounts created at the provider for seller s
IdentitiesOf(s) ==
    {a \in AccountIds : accounts[a].created /\ accounts[a].platform_user_id = s}

\* C19: two first-time provisioning requests of one seller (each loaded the
\* seller without a stored account identifier) served concurrently never
\* create an account each: the provider holds at most one account for the
\* seller while they run.
C19_OneIdentityUnderConcurrency ==
    \A p, q \in Procs :
        ( /\ p # q
          /\ procs[p].pc = "ca_save" /\ procs[q].pc = "ca_save"
          /\ procs[p].seller = procs[q].seller
          /\ procs[p].doc.stripeAccountId = 0
          /\ procs[q].doc.stripeAccountId = 0
          /\ procs[p].existingAccount = "none"
          /\ procs[q].existingAccount = "none" )
        => Cardinality(IdentitiesOf(procs[p].seller)) <= 1

\* C20: when the provisioning that a sale-session creation asked for fails
\* (the account is not created, or the seller is not saved), the request
\* ends there with status 500 and no session is created; a request reaches
\* the capability lookup only with an account that exists at the provider.
C20_NoSaleWithoutProvisioning ==
    [][\A p \in Procs :
          /\ ( /\ procs[p].caller = "payment"
               /\ procs'[p] # procs[p]
               /\ \/ procs[p].pc = "ca_create" /\ accounts' = accounts
                  \/ procs[p].pc = "ca_save" /\ db' = db )
             => /\ procs'[p] = Idle
                /\ intents' = intents
                /\ lastResponse' = <<"create-deferred-payment:seller-account", 500>>
          /\ (procs[p].pc # "cp_session" /\ procs'[p].pc = "cp_session")
             => /\ procs'[p].acct # 0
                /\ accounts'[procs'[p].acct].created]_vars

\* C20 witness: a sale-session creation ended with the provisioning error;
\* the seller has no account identifier and no session exists
C20_Witness ==
    \E s \in Sellers :
        /\ lastResponse = <<"create-deferred-payment:seller-account", 500>>
        /\ Quiet
        /\ db[s] # NoUser
        /\ db[s].stripeAccountId = 0
        /\ intents = <<>>

\* C21: a provisioning or settlement run that fails leaves provider and
\* seller record as they were before the run: after a failed save of
\* provisioning the account the run created is not at the provider, and
\* after a failed payout update or save of settlement the transfer the run
\* created is not at the provider.
C21_FailedRunLeavesPriorState ==
    [][\A p \in Procs :
          /\ (procs[p].pc = "ca_save" /\ procs'[p] # procs[p] /\ db' = db)
             => ~accounts'[procs[p].acct].created
          /\ ( /\ procs'[p] # procs[p]
               /\ \/ procs[p].pc = "au_payouts" /\ accounts' = accounts
                  \/ procs[p].pc = "au_save" /\ db' = db )
             => Len(transfers') < procs[p].transfer]_vars

\* C22: the notification-sent flag of a seller goes from false to true only
\* at the completion that brought the sale count to the threshold, and once
\* true it stays true, so that no later completion raises the signal again.
C22_NotificationExactlyOnce ==
    [][\A s \in Sellers :
          LET before == db[s].deferredOnboarding
              after == db'[s].deferredOnboarding
          IN  /\ (~before.onboardingNotificationSent /\ after.onboardingNotificationSent)
                 => after.earningsCount = NotificationThreshold
              /\ before.onboardingNotificationSent => after.onboardingNotificationSent]_vars

\* the positions inside handleCheckoutSessionCompleted and handleAccountUpdated
HandlerPcs == {"cs_save", "cs_notify", "au_connected", "au_transfer", "au_payouts", "au_save"}

\* C23: a webhook request reaches the dispatch only with a signature that
\* verified, and the two handlers are entered only from the dispatch; a
\* request with a missing or invalid signature is answered 400 and changes
\* nothing.
C23_HandlersOnlyAfterSignature ==
    [][/\ \A p \in Procs :
            /\ procs'[p].pc = "wh_dispatch" => procs'[p].signature = "valid"
            /\ (procs'[p].pc \in HandlerPcs /\ procs[p].pc \notin HandlerPcs)
               => procs[p].pc = "wh_dispatch" /\ procs[p].signature = "valid"
       /\ (lastResponse' # lastResponse /\ lastResponse'[1] = "webhook:signature")
          => /\ lastResponse'[2] = 400
             /\ UNCHANGED <<db, accounts, intents, transfers, recorded, procs>>
       /\ ( /\ lastResponse' # lastResponse
            /\ lastResponse'[1] \in
                   {"checkout.session.completed", "account.updated",
                    "account.updated:not-verified", "account.updated:no-seller",
                    "account.updated:no-pending", "account.updated:catch", "webhook"} )
          => \E p \in Procs :
                 /\ procs[p].pc \in HandlerPcs \cup {"wh_dispatch"}
                 /\ procs'[p].pc = "idle"]_vars

\* C23 witness: with a sale recorded and the account verified, a webhook
\* request was rejected for its signature
C23_Witness ==
    \E s \in Sellers :
        /\ lastResponse = <<"webhook:signature", 400>>
        /\ Quiet
        /\ db[s].deferredOnboarding.pendingEarnings > 0
        /\ db[s].stripeAccountId # 0
        /\ IsFullyVerified(accounts[db[s].stripeAccountId])
        /\ transfers = <<>>

\* C24: with requests served one at a time, the save of a platform-held
\* completion adds exactly the sale's net amount to the pending balance and
\* 1 to the sale count; so while each sale's event was handled once and
\* nothing was settled or provisioned anew, the balance is the sum of the
\* net amounts of the sales recorded and the count is their number.
C24_CompletionAddsNetAndOne ==
    [][\A p \in Procs, s \in Sellers :
          LET before == db[s].deferredOnboarding
              after == db'[s].deferredOnboarding
          IN  (procs[p].pc = "cs_save" /\ procs[p].seller = s /\ db' # db) =>
                  /\ after.pendingEarnings =
                         before.pendingEarnings + intents[procs[p].intent].seller_amount
                  /\ after.earningsCount = before.earningsCount + 1
                  /\ ( /\ \A i \in 1..MaxIntents : recorded'[i] <= 1
                       /\ transfers = <<>>
                       /\ NumCreated <= 1 )
                     => /\ after.pendingEarnings = RecordedSum(s)'
                        /\ after.earningsCount = RecordedCount(s)']_vars

\* C24 witness: two sales of different net amounts (9 and 22) both recorded
\* once: balance 31, count 2
C24_Witness ==
    \E s \in Sellers :
        /\ Len(intents) = 2
        /\ intents[1].seller_amount # intents[2].seller_amount
        /\ \A i \in 1..2 : recorded[i] = 1 /\ intents[i].sellerUserId = s
        /\ db[s].deferredOnboarding.pendingEarnings =
               intents[1].seller_amount + intents[2].seller_amount
        /\ db[s].deferredOnboarding.earningsCount = 2
        /\ Quiet

\* C25: the completion handler acts on the payment type written on the sale
\* when its session was created: it goes on to the ledger only for a sale
\* created platform_held, and for such a sale it adds the net amount whether
\* or not the seller was verified in between; it answers without touching
\* the ledger only when a sale is not platform_held (or its seller is
\* unknown).
C25_StrategyFixedAtCreation ==
    [][\A p \in Procs, s \in Sellers :
          /\ (procs[p].pc = "wh_dispatch" /\ procs'[p].pc = "cs_save"
                 /\ procs'[p].seller = s)
             => /\ intents[procs'[p].intent].payment_type = "platform_held"
                /\ intents[procs'[p].intent].sellerUserId = s
                /\ procs'[p].pendingEarnings =
                       db[s].deferredOnboarding.pendingEarnings
                           + intents[procs'[p].intent].seller_amount
          /\ (procs[p].pc = "cs_save" /\ procs[p].seller = s /\ db' # db)
             => db'[s].deferredOnboarding.pendingEarnings = procs[p].pendingEarnings
          /\ (procs[p].pc = "wh_dispatch" /\ procs'[p].pc = "idle"
                 /\ lastResponse' = <<"checkout.session.completed", 200>>)
             => \E i \in 1..Len(intents) :
                    \/ intents[i].payment_type # "platform_held"
                    \/ db[intents[i].sellerUserId] = NoUser]_vars

\* C25 witness: a platform-held sale was recorded for a seller that was
\* already marked connected when its completion arrived
C25_Witness ==
    \E s \in Sellers, i \in 1..Len(intents) :
        /\ db[s].isStripeConnected
        /\ intents[i].sellerUserId = s
        /\ intents[i].payment_type = "platform_held"
        /\ recorded[i] = 1
        /\ transfers = <<>>
        /\ db[s].deferredOnboarding.pendingEarnings = intents[i].seller_amount
        /\ IsFullyVerified(accounts[db[s].stripeAccountId])

\* C26: a platform-held session configures neither a transfer destination
\* nor an application fee and carries the seller's net amount in its
\* metadata; a direct session configures the platform fee as application fee
\* and an account of the seller as transfer destination, and carries no net
\* amount.
C26_PlanMatchesStrategy ==
    \A i \in 1..Len(intents) :
        LET plan == intents[i]
        IN  /\ plan.payment_type \in {"platform_held", "direct_transfer"}
            /\ plan.payment_type = "platform_held" =>
                   /\ plan.destination = Absent
                   /\ plan.application_fee_amount = Absent
                   /\ plan.seller_amount = plan.unit_amount - plan.platformFeeAmount
            /\ plan.payment_type = "direct_transfer" =>
                   /\ plan.application_fee_amount = PlatformFeeAmount(plan.unit_amount)
                   /\ plan.destination \in AccountIds
                   /\ accounts[plan.destination].created
                   /\ accounts[plan.destination].platform_user_id = plan.sellerUserId
                   /\ plan.seller_amount = Absent

\* C26 witness: a platform-held and a direct session of the same seller
C26_Witness ==
    /\ Len(intents) = 2
    /\ intents[1].payment_type = "platform_held"
    /\ intents[1].destination = Absent
    /\ intents[1].seller_amount > 0
    /\ intents[2].payment_type = "direct_transfer"
    /\ intents[2].application_fee_amount > 0
    /\ intents[2].destination = db[intents[2].sellerUserId].stripeAccountId

\* C27: handleAccountUpdated goes past its first test only for an account
\* with charges enabled and the transfers capability active; for any other
\* account it returns at once: the seller records, the transfers and the
\* payout schedules are untouched and the webhook answers 200.
C27_NotVerifiedIsNoOp ==
    [][\A p \in Procs :
          /\ (procs[p].pc = "wh_dispatch"
                 /\ procs'[p].pc \in {"au_connected", "au_transfer"})
             => /\ accounts[procs'[p].acct].charges_enabled
                /\ accounts[procs'[p].acct].transfers = "active"
          /\ (procs[p].pc = "wh_dispatch" /\ procs'[p].pc = "idle"
                 /\ lastResponse'[1] = "account.updated:not-verified")
             => /\ lastResponse'[2] = 200
                /\ UNCHANGED <<db, accounts, transfers, intents>>
                /\ \E a \in AccountIds :
                       /\ accounts[a].created
                       /\ ~(accounts[a].charges_enabled
                            /\ accounts[a].transfers = "active")]_vars

\* C27 witness: an event of an account with charges enabled and transfers
\* not active was handled while the seller had a pending balance; nothing
\* was transferred and the seller is not connected
C27_Witness ==
    \E s \in Sellers :
        /\ lastResponse = <<"account.updated:not-verified", 200>>
        /\ Quiet
        /\ db[s].deferredOnboarding.pendingEarnings > 0
        /\ accounts[db[s].stripeAccountId].charges_enabled
        /\ accounts[db[s].stripeAccountId].transfers # "active"
        /\ accounts[db[s].stripeAccountId].interval = "manual"
        /\ ~db[s].isStripeConnected
        /\ transfers = <<>>

\* C28: handleAccountUpdated goes on to the ledger only with the seller
\* whose record stores the event's account; for a fully verified account
\* that no seller stores it returns at once: no record, transfer or payout
\* schedule changes and the webhook answers 200.
C28_OrphanedEventIsNoOp ==
    [][\A p \in Procs :
          /\ \A s \in Sellers :
                 (procs[p].pc = "wh_dispatch"
                      /\ procs'[p].pc \in {"au_connected", "au_transfer"}
                      /\ procs'[p].seller = s)
                 => /\ db[s] # NoUser
                    /\ db[s].stripeAccountId = procs'[p].acct
          /\ (procs[p].pc = "wh_dispatch"
                 /\ procs'[p].pc \in {"au_connected", "au_transfer"})
             => procs'[p].seller \in Sellers
          /\ (procs[p].pc = "wh_dispatch" /\ procs'[p].pc = "idle"
                 /\ lastResponse'[1] = "account.updated:no-seller")
             => /\ lastResponse'[2] = 200
                /\ UNCHANGED <<db, accounts, transfers, intents>>
                /\ \E a \in AccountIds :
                       /\ accounts[a].created
                       /\ accounts[a].charges_enabled
                       /\ accounts[a].transfers = "active"
                       /\ \A s \in Sellers : db[s].stripeAccountId # a]_vars

\* C28 witness: the event of a fully verified account that no seller record
\* stores was handled and answered 200
C28_Witness ==
    \E a \in AccountIds :
        /\ lastResponse = <<"account.updated:no-seller", 200>>
        /\ Quiet
        /\ accounts[a].created
        /\ accounts[a].charges_enabled /\ accounts[a].transfers = "active"
        /\ accounts[a].interval = "manual"
        /\ \A s \in Sellers : db[s].stripeAccountId # a /\ ~db[s].isStripeConnected
        /\ transfers = <<>>

\* C29: a fully verified event of a seller whose pending balance is <= 0
\* takes the branch that marks the seller connected, and only such an event
\* does; that branch creates no transfer, changes no account and leaves the
\* ledger as it is.
C29_NoPendingMarksVerifiedOnly ==
    [][\A p \in Procs, s \in Sellers :
          /\ (procs[p].pc = "wh_dispatch" /\ procs'[p].seller = s) =>
                 /\ procs'[p].pc = "au_connected"
                        => db[s].deferredOnboarding.pendingEarnings <= 0
                 /\ procs'[p].pc = "au_transfer"
                        => db[s].deferredOnboarding.pendingEarnings > 0
          /\ (procs[p].pc = "au_connected" /\ procs[p].seller = s
                 /\ procs'[p] # procs[p]) =>
                 /\ transfers' = transfers
                 /\ accounts' = accounts
                 /\ db'[s].deferredOnboarding = db[s].deferredOnboarding
                 /\ db'[s].stripeAccountId = db[s].stripeAccountId
                 /\ lastResponse' = <<"account.updated:no-pending", 200>>
                        => db'[s].isStripeConnected]_vars

\* C29 witness: a seller with no pending balance was marked connected; no
\* transfer exists and the account is still on manual payouts
C29_Witness ==
    \E s \in Sellers :
        /\ lastResponse = <<"account.updated:no-pending", 200>>
        /\ Quiet
        /\ db[s].isStripeConnected
        /\ db[s].deferredOnboarding.pendingEarnings = 0
        /\ transfers = <<>>
        /\ accounts[db[s].stripeAccountId].interval = "manual"

\* C30: the provisioning gate. A request that finds a stored account
\* identifier confirmed by the provider returns it (or, for a sale, goes on
\* with it) and changes neither the seller record nor the accounts. A request
\* enters creation only with no stored identifier or after the lookup of the
\* stored one failed, and with the identifier cleared in its document; the
\* account it creates is a new one of this seller, and a save stores the
\* identifier of that new account.
C30_ProvisioningGate ==
    [][\A p \in Procs, s \in Sellers :
          /\ ( /\ procs[p].pc = "idle"
               /\ lastResponse # <<"create-deferred-account:existing", 200>>
               /\ lastResponse' = <<"create-deferred-account:existing", 200>> )
             => /\ \E t \in Sellers : /\ db[t].stripeAccountId # 0
                                      /\ accounts[db[t].stripeAccountId].created
                /\ db' = db
                /\ accounts' = accounts
                /\ procs' = procs
          /\ ( /\ procs[p].pc = "cp_fetch" /\ procs[p].seller = s
               /\ procs'[p].pc = "cp_session" )
             => /\ db[s].stripeAccountId # 0
                /\ procs'[p].acct = db[s].stripeAccountId
                /\ db' = db
                /\ accounts' = accounts
          /\ ( /\ procs[p].pc \in {"idle", "cp_fetch"}
               /\ procs'[p].pc = "ca_create" /\ procs'[p].seller = s )
             => /\ db[s].stripeAccountId # 0
                       => procs'[p].existingAccount = "not-found"
                /\ db[s].stripeAccountId = 0
                       => procs'[p].existingAccount = "none"
                /\ procs'[p].doc.stripeAccountId = 0
                /\ db' = db
                /\ accounts' = accounts
          /\ ( /\ procs[p].pc = "ca_create" /\ procs[p].seller = s
               /\ procs'[p].pc = "ca_save" )
             => /\ procs'[p].acct # 0
                /\ procs'[p].acct # db[s].stripeAccountId
                /\ ~accounts[procs'[p].acct].created
                /\ accounts'[procs'[p].acct].created
                /\ accounts'[procs'[p].acct].platform_user_id = s
                /\ accounts'[procs'[p].acct].interval = "manual"
                /\ db' = db
          /\ ( /\ procs[p].pc = "ca_save" /\ procs[p].seller = s
               /\ db' # db )
             => /\ db'[s].stripeAccountId = procs[p].acct
                /\ accounts[procs[p].acct].created
                /\ accounts' = accounts]_vars

\* C30 witness: a sale session was created towards the account the seller
\* had stored, the lookup of that account then failed, and the route created
\* and stored another account for the seller
C30_Witness ==
    \E s \in Sellers, i \in 1..MaxIntents :
        /\ lastResponse = <<"create-deferred-account", 200>>
        /\ Quiet
        /\ i <= Len(intents)
        /\ intents[i].sellerUserId = s
        /\ intents[i].destination # Absent
        /\ intents[i].destination # db[s].stripeAccountId
        /\ accounts[intents[i].destination].created
        /\ accounts[db[s].stripeAccountId].created
        /\ Cardinality(IdentitiesOf(s)) = 2

\* the ledger create-deferred-account initialises
FreshTracking ==
    [hasMinimalAccount |-> TRUE, pendingEarnings |-> 0, earningsCount |-> 0,
     onboardingNotificationSent |-> FALSE]

\* C31: the account create-deferred-account creates is on manual payouts with
\* its capabilities requested and not yet granted, and after the save of a
\* successful creation the seller record holds the identifier of the new
\* account, is not connected and has the fresh ledger (pending 0, count 0,
\* notification not sent).
C31_CreationPostcondition ==
    [][\A p \in Procs, s \in Sellers :
          /\ ( /\ procs[p].pc = "ca_create" /\ procs[p].seller = s
               /\ procs'[p].pc = "ca_save" )
             => /\ accounts'[procs'[p].acct].created
                /\ accounts'[procs'[p].acct].interval = "manual"
                /\ ~accounts'[procs'[p].acct].charges_enabled
                /\ accounts'[procs'[p].acct].transfers = "inactive"
          /\ ( /\ procs[p].pc = "ca_save" /\ procs[p].seller = s
               /\ db' # db )
             => /\ db'[s].stripeAccountId = procs[p].acct
                /\ ~db'[s].isStripeConnected
                /\ db'[s].deferredOnboarding = FreshTracking]_vars

\* C32: the verification status of a seller only advances. A seller record
\* is never removed, a stored account identifier is never cleared, and a
\* connected seller becomes unconnected in one case only: the save of a
\* provisioning run whose lookup of the stored account failed, which stores
\* the identifier of the account it created.
C32_StatusOnlyAdvances ==
    [][\A s \in Sellers :
          /\ db[s] # NoUser => db'[s] # NoUser
          /\ db[s].stripeAccountId # 0 => db'[s].stripeAccountId # 0
          /\ (db[s].isStripeConnected /\ ~db'[s].isStripeConnected) =>
                 \E p \in Procs :
                     /\ procs[p].pc = "ca_save"
                     /\ procs[p].seller = s
                     /\ procs[p].existingAccount = "not-found"
                     /\ db'[s].stripeAccountId = procs[p].acct
                     /\ procs[p].acct # db[s].stripeAccountId]_vars

\* C32 witness: a seller marked connected by a verification event, while a
\* provisioning run whose lookup of the stored account failed has created
\* another account and is about to save
C32_Witness ==
    \E s \in Sellers, p \in Procs :
        /\ db[s].isStripeConnected
        /\ IsFullyVerified(accounts[db[s].stripeAccountId])
        /\ procs[p].pc = "ca_save"
        /\ procs[p].seller = s
        /\ procs[p].existingAccount = "not-found"
        /\ procs[p].doc.isStripeConnected
        /\ accounts[procs[p].acct].created
        /\ procs[p].acct # db[s].stripeAccountId

\* C33: the pending balance of every seller is non-negative in every
\* reachable state, requests being served concurrently and any call free to
\* fail.
C33_PendingNonNegative ==
    \A s \in Sellers : db[s].deferredOnboarding.pendingEarnings >= 0

\* C33 witness: a seller whose balance was settled by a transfer and who
\* holds a positive balance again from a sale recorded after it
C33_Witness ==
    \E s \in Sellers :
        /\ Quiet
        /\ NumTransfers(s) >= 1
        /\ RecordedCount(s) >= 2
        /\ db[s].isStripeConnected
        /\ db[s].deferredOnboarding.pendingEarnings > 0

\* C34: conservation of funds in failure-free sequential execution. Whenever
\* no settlement of a seller is under way, the total transferred to the
\* seller plus the seller's pending balance equals the sum of the net amounts
\* of the platform-held completions recorded for the seller.
C34_FundsConserved ==
    \A s \in Sellers :
        ~SettlementInFlight(s) =>
            TransferredTotal(s) + db[s].deferredOnboarding.pendingEarnings
                = RecordedSum(s)

\* C34 witness: part of what was recorded for a seller has been transferred
\* and part of it is pending
C34_Witness ==
    \E s \in Sellers :
        /\ Quiet
        /\ TransferredTotal(s) > 0
        /\ db[s].deferredOnboarding.pendingEarnings > 0
        /\ RecordedCount(s) >= 2

C36_SettlementFailureIsSwallowed ==
    [][\A p \in Procs :
          /\ ( /\ procs[p].pc \in {"au_transfer", "au_payouts", "au_save"}
               /\ procs'[p] # procs[p] )
             => \/ /\ procs'[p] = Idle
                   /\ lastResponse'[2] = 200
                \/ /\ procs[p].pc = "au_transfer"
                   /\ procs'[p].pc = "au_payouts"
                   /\ transfers' # transfers
                \/ /\ procs[p].pc = "au_payouts"
                   /\ procs'[p].pc = "au_save"
          /\ ( /\ procs[p].pc = "au_transfer" /\ procs'[p] = Idle )
             => lastResponse' = <<"account.updated:catch", 200>>
          /\ ( /\ procs[p].pc = "au_payouts" /\ procs'[p] = Idle )
             => lastResponse' = <<"account.updated:catch", 200>>]_vars

\* C36 witness: the payout-schedule update of a settlement run failed after
\* its transfer was created; the request was answered with status 200, the
\* seller keeps the balance and the account stays on manual payouts
C36_Witness ==
    \E s \in Sellers :
        /\ lastResponse = <<"account.updated:catch", 200>>
        /\ Quiet
        /\ crashedAfterTransfer[s]
        /\ NumTransfers(s) = 1
        /\ db[s].deferredOnboarding.pendingEarnings > 0
        /\ ~db[s].isStripeConnected
        /\ accounts[db[s].stripeAccountId].interval = "manual"

\* C37: every settlement transfer goes to the account the verification event
\* carries, and at the moment the transfer is created that account is the
\* one stored on the seller whose balance it pays out.
C37_TransferGoesToStoredAccount ==
    [][\A p \in Procs, s \in Sellers :
          ( /\ procs[p].pc = "au_transfer" /\ procs[p].seller = s
            /\ transfers' # transfers )
          => /\ transfers'[Len(transfers')].destination = procs[p].acct
             /\ transfers'[Len(transfers')].seller_user_id = s
             /\ transfers'[Len(transfers')].destination = db[s].stripeAccountId]_vars

\* C38: in every reachable state a seller whose notification flag is set has
\* a sale count of at least the threshold, and neither the recording of a
\* sale nor a settlement run clears a flag that is set.
C38_FlagImpliesThreshold ==
    /\ [](\A s \in Sellers :
             db[s].deferredOnboarding.onboardingNotificationSent =>
                 db[s].deferredOnboarding.earningsCount >= NotificationThreshold)
    /\ [][\A p \in Procs, s \in Sellers :
             ( /\ procs[p].seller = s
               /\ procs[p].pc \in {"cs_save", "cs_notify", "au_connected",
                                   "au_transfer", "au_payouts", "au_save"}
               /\ procs'[p] # procs[p]
               /\ db[s].deferredOnboarding.onboardingNotificationSent )
             => db'[s].deferredOnboarding.onboardingNotificationSent]_vars

=============================================================================
